---- MODULE Spec2Model ----
(***************************************************************************)
(* The deploy hand-off of setup-vps: the webhook server (webhook/main.go)  *)
(* authenticates a trigger and creates a job folder, the watcher (a bash   *)
(* script, data/scripts/watcher) polls the job folders, takes a file lock, *)
(* syncs the project and runs its deploy script.                           *)
(*                                                                         *)
(* Strings are sequences of one-character strings, so that prefixes,       *)
(* lengths and the repository-name pattern are computed, not assumed.      *)
(***************************************************************************)
EXTENDS Integers, Sequences, FiniteSets, TLC

VARIABLES
    deployBranch,   \* DEPLOY_BRANCH of the host's .env (README, Environment Variables)
    storageUp,      \* whether the volume holding webhookDir accepts writes
    dirs,           \* the directories that exist, as paths (sequences of components)
    last,           \* the request most recently handled, and the handler that took it
    hpc,            \* per handler: "idle", or "respond" (between `go runDeploy` and c.JSON)
    hrepo,          \* per handler: the repository of the request it accepted
    gor,            \* per handler: the goroutine `go runDeploy(...)` of that request
    resp,           \* per handler: the response it sent to its latest request
    lock,           \* watcher: per project, the holder of its file lock
    wpc,            \* watcher: per watcher process, its position in the poll cycle
    wtodo,          \* watcher: pending identities listed by the scan, not yet considered
    wcur,           \* watcher: the identity the watcher is working on
    polled,         \* history: the watchers that have scanned the job folders
    early,          \* history: per project, triggers answered "queued" before the
                    \*          first scan
    late,           \* history: per project, whether one was answered after it
    owed,           \* history: per project, whether a trigger was accepted and no
                    \*          sync of the project has started since
    cycles,         \* history: per project, the cycles that claimed its lock
    skipped,        \* history: per watcher, the identities it found locked since
                    \*          its latest scan
    did,            \* history: per watcher, the steps of the cycle it claimed last
    vin,            \* the arguments of a call of verifySignature on its own
    verr            \* the error that call returned

ingressVars == <<last, hpc, hrepo, gor, resp>>
watcherVars == <<lock, wpc, wtodo, wcur>>
cycleVars == <<skipped, did>>
callVars == <<vin, verr>>
histVars == <<polled, early, late, owed, cycles, cycleVars, callVars>>
vars == <<deployBranch, storageUp, dirs, last, hpc, hrepo, gor, resp,
          lock, wpc, wtodo, wcur, polled, early, late, owed, cycles,
          skipped, did, vin, verr>>

(***************************************************************************)
(* Bounds                                                                  *)
(***************************************************************************)
\* The history counters count up to these and stay there.
MaxBurst == 2
MaxCycles == 2

Handlers == {"h1", "h2"}
Watchers == {"w1", "w2"}

(***************************************************************************)
(* Strings                                                                 *)
(***************************************************************************)
Letters ==
    {"a","b","c","d","e","f","g","h","i","j","k","l","m",
     "n","o","p","q","r","s","t","u","v","w","x","y","z",
     "A","B","C","D","E","F","G","H","I","J","K","L","M",
     "N","O","P","Q","R","S","T","U","V","W","X","Y","Z"}
Digits == {"0","1","2","3","4","5","6","7","8","9"}

Min(a, b) == IF a < b THEN a ELSE b

\* s[1..n], as Go's s[:n]
Take(s, n) == SubSeq(s, 1, n)
\* s[n+1..], as Go's s[n:]
Drop(s, n) == SubSeq(s, n + 1, Len(s))

\* webhookDir = "/app/webhook_jobs"
webhookDir == << <<"a","p","p">>, <<"w","e","b","h","o","o","k","_","j","o","b","s">> >>

\* the pattern written [a-zA-Z0-9_-]+, without its anchors: a match anywhere
repoNamePattern_Unanchored(s) ==
    \E i \in 1..Len(s) : s[i] \in Letters \cup Digits \cup {"_", "-"}

\* the pattern written ^[a-zA-Z0-9_-]*$, which the empty name matches
repoNamePattern_Star(s) ==
    \A i \in 1..Len(s) : s[i] \in Letters \cup Digits \cup {"_", "-"}

\* repoNamePattern = ^[a-zA-Z0-9_-]+$ ; Go's $ matches only at the end of the text
repoNamePattern(s) ==
    /\ Len(s) >= 1
    /\ \A i \in 1..Len(s) : s[i] \in Letters \cup Digits \cup {"_", "-"}

(***************************************************************************)
(* Paths: filepath.Join and os.MkdirAll                                    *)
(***************************************************************************)
Range(s) == {s[i] : i \in 1..Len(s)}

\* the components of s between its '/' separators
RECURSIVE Split(_)
Split(s) ==
    IF "/" \notin Range(s) THEN <<s>>
    ELSE LET i == CHOOSE k \in 1..Len(s) :
                      s[k] = "/" /\ \A j \in 1..(k - 1) : s[j] # "/"
         IN  <<Take(s, i - 1)>> \o Split(Drop(s, i))

\* filepath.Clean of an absolute path: empty and "." components vanish,
\* ".." removes the component before it (and stays at the root)
RECURSIVE Clean(_, _)
Clean(path, comps) ==
    IF comps = <<>> THEN path
    ELSE LET c == Head(comps) IN
         IF c = <<>> \/ c = <<".">> THEN Clean(path, Tail(comps))
         ELSE IF c = <<".", ".">>
              THEN Clean(IF path = <<>> THEN path ELSE Take(path, Len(path) - 1),
                         Tail(comps))
              ELSE Clean(Append(path, c), Tail(comps))

\* filepath.Join(webhookDir, repository)
Join(dir, name) == Clean(<<>>, dir \o Split(name))

\* the directory p and its ancestors, which os.MkdirAll(p) leaves existing
Ancestors(p) == {Take(p, n) : n \in 1..Len(p)}

\* the job folders: the direct children of webhookDir
IsSlot(d) == Len(d) = Len(webhookDir) + 1 /\ Take(d, Len(webhookDir)) = webhookDir
SlotName(d) == d[Len(d)]
\* list_pending: the identities with a job folder
Pending == {SlotName(d) : d \in {e \in dirs : IsSlot(e)}}

(***************************************************************************)
(* Requests                                                                *)
(***************************************************************************)
Main == <<"m","a","i","n">>
Dev == <<"d","e","v">>
Branches == {Main, Dev}
RefsHeads == <<"r","e","f","s","/","h","e","a","d","s","/">>
RefsTags == <<"r","e","f","s","/","t","a","g","s","/">>

Svc1 == <<"s","v","c","1">>
B2 == <<"b","-","2">>
Projects == {Svc1, B2}

\* The raw bodies a request may carry, by number: json says whether
\* json.Unmarshal accepts the bytes, ref and name are the fields it fills
\* (an absent field stays "").
RawBodies == <<
    [json |-> FALSE, ref |-> <<>>,              name |-> <<>>],
    [json |-> TRUE,  ref |-> RefsHeads \o Main, name |-> Svc1],
    [json |-> TRUE,  ref |-> RefsHeads \o Main, name |-> B2],
    [json |-> TRUE,  ref |-> RefsHeads \o Dev,  name |-> Svc1],
    [json |-> TRUE,  ref |-> RefsTags \o Main,  name |-> B2],
    [json |-> TRUE,  ref |-> RefsHeads \o Main, name |-> <<>>],
    [json |-> TRUE,  ref |-> RefsHeads \o Main, name |-> <<"a","/","b">>],
    [json |-> TRUE,  ref |-> RefsHeads \o Main, name |-> <<".",".">>],
    [json |-> TRUE,  ref |-> <<>>,              name |-> <<>>] >>
Bodies == 1..Len(RawBodies)

\* GITHUB_WEBHOOK_SECRET, and a secret the server does not hold
webhookSecret == 11
OtherSecrets == {12}

\* HMAC-SHA256 on the model's domain: a keyed digest of one byte
hmacSha256(key, body) == (key * 37 + body * 101 + 13) % 256

HexDigits == <<"0","1","2","3","4","5","6","7","8","9","a","b","c","d","e","f">>
UpperHexDigits == <<"0","1","2","3","4","5","6","7","8","9","A","B","C","D","E","F">>
\* hex.EncodeToString of a one-byte digest
EncodeToString(d) == <<HexDigits[(d \div 16) + 1], HexDigits[(d % 16) + 1]>>
EncodeUpper(d) == <<UpperHexDigits[(d \div 16) + 1], UpperHexDigits[(d % 16) + 1]>>

Sha256Prefix == <<"s","h","a","2","5","6","=">>
Sha1Prefix == <<"s","h","a","1","=">>

\* the value a sender holding the secret puts in X-Hub-Signature-256
Sign(key, body) == Sha256Prefix \o EncodeToString(hmacSha256(key, body))

\* The signature headers tried with body b: absent, the right one, the right
\* digest under another prefix or in upper case, a truncated prefix, the
\* digest of another body, and the digest under another secret.
Signatures(b) ==
    {<<>>, Sign(webhookSecret, b),
     Sha1Prefix \o EncodeToString(hmacSha256(webhookSecret, b)),
     Sha256Prefix \o EncodeUpper(hmacSha256(webhookSecret, b)),
     Take(Sha256Prefix, 6)}
    \cup {Sign(webhookSecret, (b % Len(RawBodies)) + 1)}
    \cup {Sign(k, b) : k \in OtherSecrets}

Events == {"push", "pull_request", ""}

AllSignatures == UNION {Signatures(c) : c \in Bodies}

Requests ==
    {req \in [readErr : BOOLEAN, body : Bodies, sig : AllSignatures, event : Events] :
        /\ req.sig \in Signatures(req.body)
        /\ req.readErr => req.event = "push"}

(***************************************************************************)
(* webhook/main.go                                                         *)
(***************************************************************************)
\* verifySignature without the comparison of the two MACs
verifySignature_NoCompare(body, signature) ==
    IF signature = <<>> \/ Len(signature) < 7 \/ Take(signature, 7) # Sha256Prefix
    THEN "missing or invalid signature"
    ELSE ""

\* a hex digit in lower case
ToLower(c) ==
    IF \E i \in 11..16 : UpperHexDigits[i] = c
    THEN HexDigits[CHOOSE i \in 11..16 : UpperHexDigits[i] = c]
    ELSE c

\* verifySignature comparing the two MACs without regard to the case of the
\* hex digits
verifySignature_CaseFold(body, signature) ==
    IF signature = <<>> \/ Len(signature) < 7 \/ Take(signature, 7) # Sha256Prefix
    THEN "missing or invalid signature"
    ELSE LET expectedMAC == EncodeToString(hmacSha256(webhookSecret, body))
             receivedMAC == Drop(signature, 7)
         IN  IF expectedMAC # [i \in 1..Len(receivedMAC) |-> ToLower(receivedMAC[i])]
             THEN "signature mismatch" ELSE ""

\* verifySignature: "" when it returns nil, else the error's text
verifySignature(body, signature) ==
    IF signature = <<>> \/ Len(signature) < 7 \/ Take(signature, 7) # Sha256Prefix
    THEN "missing or invalid signature"
    ELSE LET expectedMAC == EncodeToString(hmacSha256(webhookSecret, body))
             receivedMAC == Drop(signature, 7)
         IN  IF expectedMAC # receivedMAC THEN "signature mismatch" ELSE ""

Reply(status, body) == [status |-> status, body |-> body]
NoReply == Reply(0, "")
Queued == Reply(200, "queued")

\* the handler without its check of X-GitHub-Event
Decide_AnyEvent(req) ==
    IF req.readErr THEN Reply(400, "failed to read body")
    ELSE IF verifySignature(req.body, req.sig) # ""
         THEN Reply(401, verifySignature(req.body, req.sig))
    ELSE IF ~RawBodies[req.body].json THEN Reply(400, "invalid JSON")
    ELSE IF RawBodies[req.body].ref # RefsHeads \o Main
         THEN Reply(200, "ignored: not main")
    ELSE IF ~repoNamePattern(RawBodies[req.body].name)
         THEN Reply(200, "ignored: invalid repository")
    ELSE Queued

\* the handler going on with the zero payload when json.Unmarshal fails
Decide_NoParse(req) ==
    IF req.readErr THEN Reply(400, "failed to read body")
    ELSE IF verifySignature(req.body, req.sig) # ""
         THEN Reply(401, verifySignature(req.body, req.sig))
    ELSE IF req.event # "push" THEN Reply(200, "ignored: not a push")
    ELSE IF RawBodies[req.body].ref # RefsHeads \o Main
         THEN Reply(200, "ignored: not main")
    ELSE IF ~repoNamePattern(RawBodies[req.body].name)
         THEN Reply(200, "ignored: invalid repository")
    ELSE Queued

\* the handler checking the repository name before the ref
Decide_NameFirst(req) ==
    IF req.readErr THEN Reply(400, "failed to read body")
    ELSE IF verifySignature(req.body, req.sig) # ""
         THEN Reply(401, verifySignature(req.body, req.sig))
    ELSE IF req.event # "push" THEN Reply(200, "ignored: not a push")
    ELSE IF ~RawBodies[req.body].json THEN Reply(400, "invalid JSON")
    ELSE IF ~repoNamePattern(RawBodies[req.body].name)
         THEN Reply(200, "ignored: invalid repository")
    ELSE IF RawBodies[req.body].ref # RefsHeads \o Main
         THEN Reply(200, "ignored: not main")
    ELSE Queued

\* githubWebhookHandler up to its last statement: the reply of the first check
\* that fails, or Queued when the request passes them all
Decide(req) ==
    IF req.readErr THEN Reply(400, "failed to read body")
    ELSE IF verifySignature(req.body, req.sig) # ""
         THEN Reply(401, verifySignature(req.body, req.sig))
    ELSE IF req.event # "push" THEN Reply(200, "ignored: not a push")
    ELSE IF ~RawBodies[req.body].json THEN Reply(400, "invalid JSON")
    ELSE IF RawBodies[req.body].ref # RefsHeads \o Main
         THEN Reply(200, "ignored: not main")
    ELSE IF ~repoNamePattern(RawBodies[req.body].name)
         THEN Reply(200, "ignored: invalid repository")
    ELSE Queued

NoRequest == [readErr |-> FALSE, body |-> 0, sig |-> <<>>, event |-> ""]
NoHandler == "none"
NoRepo == <<>>
Free == "free"
NoCall == [body |-> 0, signature |-> <<>>]
NotRun == "not run"

\* a call that leaves p and its ancestors as the only directories
MkdirAll_Only(p) ==
    IF storageUp THEN [err |-> FALSE, dirs |-> Ancestors(p)]
    ELSE [err |-> TRUE, dirs |-> dirs]

\* os.Mkdir in the place of os.MkdirAll: a path that exists is an error
MkdirAll_Mkdir(p) ==
    IF storageUp /\ p \notin dirs THEN [err |-> FALSE, dirs |-> dirs \cup Ancestors(p)]
    ELSE [err |-> TRUE, dirs |-> dirs]

\* os.MkdirAll(p, 0755): the error it returns and the directories that exist
\* after it; a path that already exists is left as it is, without error
MkdirAll(p) ==
    IF storageUp THEN [err |-> FALSE, dirs |-> dirs \cup Ancestors(p)]
    ELSE [err |-> TRUE, dirs |-> dirs]

\* the state after init(): the secret is loaded and webhookDir exists
Booted ==
    /\ deployBranch \in Branches
    /\ storageUp = TRUE
    /\ dirs = Ancestors(webhookDir)
    /\ last = [req |-> NoRequest, by |-> NoHandler]
    /\ hpc = [h \in Handlers |-> "idle"]
    /\ hrepo = [h \in Handlers |-> NoRepo]
    /\ gor = [h \in Handlers |-> "none"]
    /\ resp = [h \in Handlers |-> NoReply]
    /\ lock = [r \in Projects |-> Free]
    /\ wpc = [w \in Watchers |-> "idle"]
    /\ wtodo = [w \in Watchers |-> {}]
    /\ wcur = [w \in Watchers |-> NoRepo]
    /\ polled = {}
    /\ early = [r \in Projects |-> 0]
    /\ late = [r \in Projects |-> FALSE]
    /\ owed = [r \in Projects |-> FALSE]
    /\ cycles = [r \in Projects |-> 0]
    /\ skipped = [w \in Watchers |-> {}]
    /\ did = [w \in Watchers |-> <<>>]

Init ==
    /\ Booted
    /\ vin = NoCall
    /\ verr = NotRun

\* githubWebhookHandler, from reading the body to `go runDeploy(repository)`
\* (or to the reply of the check that failed)
Handle(h, req) ==
    /\ hpc[h] = "idle"
    /\ gor[h] # "ready"
    /\ last' = [req |-> req, by |-> h]
    /\ IF Decide(req) = Queued
       THEN /\ hpc' = [hpc EXCEPT ![h] = "respond"]
            /\ hrepo' = [hrepo EXCEPT ![h] = RawBodies[req.body].name]
            /\ gor' = [gor EXCEPT ![h] = "ready"]
            /\ resp' = [resp EXCEPT ![h] = NoReply]
       ELSE /\ hpc' = hpc
            /\ hrepo' = [hrepo EXCEPT ![h] = NoRepo]
            /\ gor' = [gor EXCEPT ![h] = "none"]
            /\ resp' = [resp EXCEPT ![h] = Decide(req)]
    /\ UNCHANGED <<deployBranch, storageUp, dirs>>
    /\ UNCHANGED watcherVars

\* githubWebhookHandler's last statement: c.JSON(200, {ok: true, queued: true})
Respond(h) ==
    /\ hpc[h] = "respond"
    /\ hpc' = [hpc EXCEPT ![h] = "idle"]
    /\ resp' = [resp EXCEPT ![h] = Queued]
    /\ UNCHANGED <<deployBranch, storageUp, dirs, last, hrepo, gor>>
    /\ UNCHANGED watcherVars

\* the goroutine runDeploy(repository): an error of MkdirAll is printed, no more
runDeploy(h) ==
    /\ gor[h] = "ready"
    /\ LET made == MkdirAll(Join(webhookDir, hrepo[h])) IN
        /\ dirs' = made.dirs
        /\ gor' = [gor EXCEPT ![h] = IF made.err THEN "failed" ELSE "ok"]
    /\ UNCHANGED <<deployBranch, storageUp, last, hpc, hrepo, resp>>
    /\ UNCHANGED watcherVars

\* the volume stops, or starts again, to accept the server's writes
StorageFails ==
    /\ storageUp
    /\ storageUp' = FALSE
    /\ UNCHANGED <<deployBranch, dirs>>
    /\ UNCHANGED ingressVars
    /\ UNCHANGED watcherVars

StorageRecovers ==
    /\ ~storageUp
    /\ storageUp' = TRUE
    /\ UNCHANGED <<deployBranch, dirs>>
    /\ UNCHANGED ingressVars
    /\ UNCHANGED watcherVars

(***************************************************************************)
(* data/scripts/watcher                                                    *)
(***************************************************************************)
\* what a watcher does next once it is done with an identity
Onward(todo) == IF todo = {} THEN "idle" ELSE "claiming"

\* SCANNING: list_pending()
Scan(w) ==
    /\ wpc[w] = "idle"
    /\ wtodo' = [wtodo EXCEPT ![w] = Pending]
    /\ wpc' = [wpc EXCEPT ![w] = Onward(Pending)]
    /\ UNCHANGED <<deployBranch, storageUp, dirs, lock, wcur>>
    /\ UNCHANGED ingressVars

\* a watcher that starts its cycle without looking at the lock
Claim_NoLock(w, r) ==
    /\ wpc[w] = "claiming"
    /\ r \in wtodo[w]
    /\ wtodo' = [wtodo EXCEPT ![w] = @ \ {r}]
    /\ lock' = [lock EXCEPT ![r] = w]
    /\ wcur' = [wcur EXCEPT ![w] = r]
    /\ wpc' = [wpc EXCEPT ![w] = "clearing"]
    /\ UNCHANGED <<deployBranch, storageUp, dirs>>
    /\ UNCHANGED ingressVars

\* a watcher that removes the job folder of an identity it finds locked
Claim_SkipClears(w, r) ==
    /\ wpc[w] = "claiming"
    /\ r \in wtodo[w]
    /\ wtodo' = [wtodo EXCEPT ![w] = @ \ {r}]
    /\ IF lock[r] = Free
       THEN /\ lock' = [lock EXCEPT ![r] = w]
            /\ wcur' = [wcur EXCEPT ![w] = r]
            /\ wpc' = [wpc EXCEPT ![w] = "clearing"]
            /\ dirs' = dirs
       ELSE /\ wpc' = [wpc EXCEPT ![w] = Onward(wtodo[w] \ {r})]
            /\ dirs' = dirs \ {Append(webhookDir, r)}
            /\ UNCHANGED <<lock, wcur>>
    /\ UNCHANGED <<deployBranch, storageUp>>
    /\ UNCHANGED ingressVars

\* CLAIMING: try the identity's lock without blocking; SKIPPED when it is held
Claim(w, r) ==
    /\ wpc[w] = "claiming"
    /\ r \in wtodo[w]
    /\ wtodo' = [wtodo EXCEPT ![w] = @ \ {r}]
    /\ IF lock[r] = Free
       THEN /\ lock' = [lock EXCEPT ![r] = w]
            /\ wcur' = [wcur EXCEPT ![w] = r]
            /\ wpc' = [wpc EXCEPT ![w] = "clearing"]
       ELSE /\ wpc' = [wpc EXCEPT ![w] = Onward(wtodo[w] \ {r})]
            /\ UNCHANGED <<lock, wcur>>
    /\ UNCHANGED <<deployBranch, storageUp, dirs>>
    /\ UNCHANGED ingressVars

\* a watcher that goes on to the sync and leaves the job folder in place
Clear_Keep(w) ==
    /\ wpc[w] = "clearing"
    /\ wpc' = [wpc EXCEPT ![w] = "syncing"]
    /\ UNCHANGED <<deployBranch, storageUp, dirs, lock, wtodo, wcur>>
    /\ UNCHANGED ingressVars

\* clear(identity): the job folder and what is below it are removed
Clear(w) ==
    /\ wpc[w] = "clearing"
    /\ dirs' = {d \in dirs :
                  ~(Len(d) > Len(webhookDir)
                    /\ Take(d, Len(webhookDir) + 1) = Append(webhookDir, wcur[w]))}
    /\ wpc' = [wpc EXCEPT ![w] = "syncing"]
    /\ UNCHANGED <<deployBranch, storageUp, lock, wtodo, wcur>>
    /\ UNCHANGED ingressVars

\* SYNCING: git fetch and git reset --hard; a failure aborts the cycle
Sync(w) ==
    /\ wpc[w] = "syncing"
    /\ \E ok \in BOOLEAN :
          wpc' = [wpc EXCEPT ![w] = IF ok THEN "deploying" ELSE "releasing"]
    /\ UNCHANGED <<deployBranch, storageUp, dirs, lock, wtodo, wcur>>
    /\ UNCHANGED ingressVars

\* DEPLOYING: scripts/deploy runs and returns, with any exit status
Deploy(w) ==
    /\ wpc[w] = "deploying"
    /\ wpc' = [wpc EXCEPT ![w] = "releasing"]
    /\ UNCHANGED <<deployBranch, storageUp, dirs, lock, wtodo, wcur>>
    /\ UNCHANGED ingressVars

\* a watcher that ends its cycle and keeps the lock
Release_Hold(w) ==
    /\ wpc[w] = "releasing"
    /\ wcur' = [wcur EXCEPT ![w] = NoRepo]
    /\ wpc' = [wpc EXCEPT ![w] = Onward(wtodo[w])]
    /\ UNCHANGED <<deployBranch, storageUp, dirs, lock, wtodo>>
    /\ UNCHANGED ingressVars

\* DONE: the lock is released
Release(w) ==
    /\ wpc[w] = "releasing"
    /\ lock' = [lock EXCEPT ![wcur[w]] = Free]
    /\ wcur' = [wcur EXCEPT ![w] = NoRepo]
    /\ wpc' = [wpc EXCEPT ![w] = Onward(wtodo[w])]
    /\ UNCHANGED <<deployBranch, storageUp, dirs, wtodo>>
    /\ UNCHANGED ingressVars

(***************************************************************************)
(* History variables: what the runs of the whole system are observed for   *)
(***************************************************************************)
\* a trigger is accepted: a cycle is owed to its project
ObserveHandle(req) ==
    /\ owed' = IF Decide(req) = Queued
               THEN [owed EXCEPT ![RawBodies[req.body].name] = TRUE]
               ELSE owed
    /\ UNCHANGED <<polled, early, late, cycles>>
    /\ UNCHANGED <<cycleVars, callVars>>

\* the trigger is answered "queued": before the first scan it adds to the burst
ObserveRespond(h) ==
    /\ IF polled # {}
       THEN late' = [late EXCEPT ![hrepo[h]] = TRUE] /\ early' = early
       ELSE early' = [early EXCEPT ![hrepo[h]] = Min(@ + 1, MaxBurst)] /\ late' = late
    /\ UNCHANGED <<polled, owed, cycles>>
    /\ UNCHANGED <<cycleVars, callVars>>

ObserveScan(w) ==
    /\ polled' = polled \cup {w}
    /\ UNCHANGED <<early, late, owed, cycles>>
    /\ UNCHANGED <<cycleVars, callVars>>

\* a cycle begins when the lock is claimed
ObserveClaim(r) ==
    /\ cycles' = [cycles EXCEPT ![r] = IF lock[r] = Free THEN Min(@ + 1, MaxCycles) ELSE @]
    /\ UNCHANGED <<polled, early, late, owed>>
    /\ UNCHANGED <<cycleVars, callVars>>

\* the sync starts: it fetches what was pushed up to now
ObserveSync(w) ==
    /\ owed' = [owed EXCEPT ![wcur[w]] = FALSE]
    /\ UNCHANGED <<polled, early, late, cycles>>
    /\ UNCHANGED <<cycleVars, callVars>>

\* The steps of a claimed cycle, as the watcher logs them.
ExitStatuses == {0, 1}
Steps == [lock |-> "lock", clear |-> "clear", synced |-> "sync ok",
          syncFailed |-> "sync failed", deployed |-> "deploy exit 0",
          deployFailed |-> "deploy exit 1", release |-> "release"]

\* a new poll: nothing was skipped yet
TraceScan(w) ==
    /\ skipped' = [skipped EXCEPT ![w] = {}]
    /\ UNCHANGED <<polled, early, late, owed, cycles, did, callVars>>

\* the lock is taken and a cycle begins, or the identity is skipped
TraceClaim(w, r) ==
    /\ IF lock[r] = Free
       THEN did' = [did EXCEPT ![w] = <<Steps.lock>>] /\ skipped' = skipped
       ELSE skipped' = [skipped EXCEPT ![w] = @ \cup {r}] /\ did' = did
    /\ UNCHANGED <<polled, early, late, owed, cycles, callVars>>

TraceClear(w) ==
    /\ did' = [did EXCEPT ![w] = Append(@, Steps.clear)]
    /\ UNCHANGED <<polled, early, late, owed, cycles, skipped, callVars>>

\* the sync went well when the watcher goes on to the deploy
TraceSync(w) ==
    /\ did' = [did EXCEPT ![w] = Append(@, IF wpc'[w] = "deploying"
                                           THEN Steps.synced
                                           ELSE Steps.syncFailed)]
    /\ UNCHANGED <<polled, early, late, owed, cycles, skipped, callVars>>

\* scripts/deploy returns with an exit status, which is logged
TraceDeploy(w) ==
    /\ \E status \in ExitStatuses :
          did' = [did EXCEPT ![w] = Append(@, IF status = 0
                                               THEN Steps.deployed
                                               ELSE Steps.deployFailed)]
    /\ UNCHANGED <<polled, early, late, owed, cycles, skipped, callVars>>

TraceRelease(w) ==
    /\ did' = [did EXCEPT ![w] = Append(@, Steps.release)]
    /\ UNCHANGED <<polled, early, late, owed, cycles, skipped, callVars>>

\* The triggers of the whole-system runs: a push to main of project svc1
\* under every event type, correctly signed or without a signature.
SysRequests ==
    {req \in Requests :
        /\ ~req.readErr
        /\ req.body = 2
        /\ req.sig \in {<<>>, Sign(webhookSecret, req.body)}}

\* The whole system: the webhook server, the storage and the watchers.
Next ==
    \/ \E h \in Handlers, req \in SysRequests : Handle(h, req) /\ ObserveHandle(req)
    \/ \E h \in Handlers : Respond(h) /\ ObserveRespond(h)
    \/ \E h \in Handlers : runDeploy(h) /\ UNCHANGED histVars
    \/ StorageFails /\ UNCHANGED histVars
    \/ StorageRecovers /\ UNCHANGED histVars
    \/ \E w \in Watchers : Scan(w) /\ ObserveScan(w)
    \/ \E w \in Watchers, r \in Projects : Claim(w, r) /\ ObserveClaim(r)
    \/ \E w \in Watchers : Clear(w) /\ UNCHANGED histVars
    \/ \E w \in Watchers : Sync(w) /\ ObserveSync(w)
    \/ \E w \in Watchers : Deploy(w) /\ UNCHANGED histVars
    \/ \E w \in Watchers : Release(w) /\ UNCHANGED histVars

\* as installed from templates/env-example: DEPLOY_BRANCH=main
SysInit == Init /\ deployBranch = Main

Spec == SysInit /\ [][Next]_vars

\* The scheduling the runtime gives: a goroutine that was started runs, a
\* handler that reached its reply sends it, and a watcher takes its next step
\* (it polls on a timer; git and the deploy script return). Nothing obliges a
\* sender to push, nor the storage to fail or to recover.
Fairness ==
    /\ \A h \in Handlers : WF_vars(Respond(h) /\ ObserveRespond(h))
    /\ \A h \in Handlers : WF_vars(runDeploy(h) /\ UNCHANGED histVars)
    /\ \A w \in Watchers : WF_vars(Scan(w) /\ ObserveScan(w))
    /\ \A w \in Watchers : WF_vars(\E r \in Projects : Claim(w, r) /\ ObserveClaim(r))
    /\ \A w \in Watchers : WF_vars(Clear(w) /\ UNCHANGED histVars)
    /\ \A w \in Watchers : WF_vars(Sync(w) /\ ObserveSync(w))
    /\ \A w \in Watchers : WF_vars(Deploy(w) /\ UNCHANGED histVars)
    /\ \A w \in Watchers : WF_vars(Release(w) /\ UNCHANGED histVars)

FairSpec == SysInit /\ [][Next]_vars /\ Fairness

\* The webhook server alone, one request at a time, given every request of
\* the input domain.
IngressNext ==
    \/ \E req \in Requests : Handle("h1", req) /\ UNCHANGED histVars
    \/ Respond("h1") /\ UNCHANGED histVars
    \/ runDeploy("h1") /\ UNCHANGED histVars
    \/ StorageFails /\ UNCHANGED histVars
    \/ StorageRecovers /\ UNCHANGED histVars

IngressSpec == Init /\ [][IngressNext]_vars

\* The producers of the queue: concurrent handlers with no watcher running,
\* given correctly signed pushes to main of both projects, and requests that
\* are turned away: a push to dev, a push naming "a/b", a push signed under
\* another secret and a pull_request event.
QueueRequests ==
    {req \in Requests :
        /\ ~req.readErr
        /\ \/ /\ req.event = "push"
              /\ req.body \in {2, 3, 4, 7}
              /\ req.sig = Sign(webhookSecret, req.body)
           \/ /\ req.event = "push"
              /\ req.body = 2
              /\ req.sig \in {Sign(k, req.body) : k \in OtherSecrets}
           \/ /\ req.event = "pull_request"
              /\ req.body = 3
              /\ req.sig = Sign(webhookSecret, req.body)}

QueueNext ==
    \/ \E h \in Handlers, req \in QueueRequests : Handle(h, req) /\ ObserveHandle(req)
    \/ \E h \in Handlers : Respond(h) /\ ObserveRespond(h)
    \/ \E h \in Handlers : runDeploy(h) /\ UNCHANGED histVars
    \/ StorageFails /\ UNCHANGED histVars
    \/ StorageRecovers /\ UNCHANGED histVars

QueueSpec == SysInit /\ [][QueueNext]_vars

\* The consumers of the queue: two watcher processes and both projects, the
\* job folders made by one handler given correctly signed pushes to main
\* (one of them naming "..") and a push without a signature.
WatcherRequests ==
    {req \in Requests :
        /\ ~req.readErr
        /\ req.event = "push"
        /\ \/ req.body \in {2, 3, 8} /\ req.sig = Sign(webhookSecret, req.body)
           \/ req.body = 3 /\ req.sig = <<>>}

WatcherNext ==
    \/ \E req \in WatcherRequests : Handle("h1", req) /\ UNCHANGED histVars
    \/ Respond("h1") /\ UNCHANGED histVars
    \/ runDeploy("h1") /\ UNCHANGED histVars
    \/ \E w \in Watchers : Scan(w) /\ TraceScan(w)
    \/ \E w \in Watchers, r \in Projects : Claim(w, r) /\ TraceClaim(w, r)
    \/ \E w \in Watchers : Clear(w) /\ TraceClear(w)
    \/ \E w \in Watchers : Sync(w) /\ TraceSync(w)
    \/ \E w \in Watchers : Deploy(w) /\ TraceDeploy(w)
    \/ \E w \in Watchers : Release(w) /\ TraceRelease(w)

WatcherSpec == SysInit /\ [][WatcherNext]_vars

\* a watcher takes its next step: it polls on a timer, git and the deploy
\* script return
WatcherFairness ==
    /\ \A w \in Watchers : WF_vars(Scan(w) /\ TraceScan(w))
    /\ \A w \in Watchers : WF_vars(\E r \in Projects : Claim(w, r) /\ TraceClaim(w, r))
    /\ \A w \in Watchers : WF_vars(Clear(w) /\ TraceClear(w))
    /\ \A w \in Watchers : WF_vars(Sync(w) /\ TraceSync(w))
    /\ \A w \in Watchers : WF_vars(Deploy(w) /\ TraceDeploy(w))
    /\ \A w \in Watchers : WF_vars(Release(w) /\ TraceRelease(w))

FairWatcherSpec == SysInit /\ [][WatcherNext]_vars /\ WatcherFairness

\* verifySignature on its own. The signatures it is given with a body: the
\* one a sender holding the secret computes, that one with one character
\* replaced, cut short or extended, the ones of the other bodies and of the
\* other secrets, and none.
SignatureChars ==
    Range(HexDigits) \cup Range(UpperHexDigits) \cup {"s", "h", "=", "g", " "}

VerifySignatures(b) ==
    LET right == Sign(webhookSecret, b) IN
        {right, <<>>}
        \cup {[right EXCEPT ![i] = c] : i \in 1..Len(right), c \in SignatureChars}
        \cup {Take(right, n) : n \in 0..Len(right)}
        \cup {Append(right, c) : c \in SignatureChars}
        \cup {Sign(webhookSecret, c) : c \in Bodies}
        \cup {Sign(k, c) : k \in OtherSecrets, c \in Bodies}

VerifyInit ==
    /\ Booted
    /\ deployBranch = Main
    /\ vin \in {[body |-> b, signature |-> g] : b \in Bodies, g \in UNION {VerifySignatures(c) : c \in Bodies}}
    /\ vin.signature \in VerifySignatures(vin.body)
    /\ verr = NotRun

\* the call verifySignature(body, signature)
Verify ==
    /\ verr = NotRun
    /\ verr' = verifySignature(vin.body, vin.signature)
    /\ UNCHANGED <<deployBranch, storageUp, dirs, vin>>
    /\ UNCHANGED ingressVars
    /\ UNCHANGED watcherVars
    /\ UNCHANGED <<polled, early, late, owed, cycles, cycleVars>>

VerifyNext == Verify

VerifySpec == VerifyInit /\ [][VerifyNext]_vars

(***************************************************************************)
(* The properties                                                          *)
(***************************************************************************)
\* the statements' own words, defined apart from the code's definitions
StartsWith(s, p) == Len(s) >= Len(p) /\ SubSeq(s, 1, Len(p)) = p
BadSignature(req) ==
    \/ req.sig = <<>>
    \/ ~StartsWith(req.sig, Sha256Prefix)
    \/ SubSeq(req.sig, Len(Sha256Prefix) + 1, Len(req.sig))
          # EncodeToString(hmacSha256(webhookSecret, req.body))
Authentic(req) == ~req.readErr /\ ~BadSignature(req)
IsIdentifier(s) == s # <<>> /\ Range(s) \subseteq (Letters \cup Digits \cup {"_", "-"})
IsIgnored(reply) ==
    /\ reply.status = 200
    /\ reply.body \in {"ignored: not a push", "ignored: not main",
                       "ignored: invalid repository"}

\* a step in which a handler took a request: last' is the request, last'.by
\* the handler (taking the same request again after a reply that did not
\* queue it changes nothing at all)
Handled == last' # last
\* the step starts no slot write and changes no directory
NothingQueued ==
    /\ dirs' = dirs
    /\ gor'[last'.by] = "none"
    /\ hpc'[last'.by] = "idle"

\* C1 as stated: a request whose signature is missing, lacks the prefix
\* "sha256=" or differs from the hex HMAC of the body is answered 401 and no
\* slot is created or changed.
C1_BadSignatureIs401 ==
    [][(Handled /\ BadSignature(last'.req))
          => (resp'[last'.by].status = 401 /\ NothingQueued)]_vars

\* C1, amended: such a request is answered 401 when its body was read, and 400
\* when reading the body failed; in both cases no slot is created or changed.
C1_BadSignatureRejected ==
    [][(Handled /\ BadSignature(last'.req))
          => /\ resp'[last'.by].status = IF last'.req.readErr THEN 400 ELSE 401
             /\ NothingQueued]_vars

\* a push to main of svc1 signed under another secret was answered 401
C1_Witness ==
    /\ last.req = [readErr |-> FALSE, body |-> 2, event |-> "push",
                   sig |-> Sign(12, 2)]
    /\ resp[last.by] = Reply(401, "signature mismatch")
    /\ Pending = {}

\* C7: whatever branch DEPLOY_BRANCH names, an authenticated push whose ref
\* is not refs/heads/<that branch> is answered 200 "ignored" and starts no
\* slot write.
C7_OnlyDeployBranch ==
    [][(/\ Handled
        /\ Authentic(last'.req)
        /\ last'.req.event = "push"
        /\ RawBodies[last'.req.body].json
        /\ RawBodies[last'.req.body].ref # RefsHeads \o deployBranch)
          => (IsIgnored(resp'[last'.by]) /\ NothingQueued)]_vars

\* C8: an authenticated push to the deploy branch whose repository name is
\* not an identifier is answered 200 "ignored", not an error, and starts no
\* slot write.
C8_InvalidNameIgnored ==
    [][(/\ Handled
        /\ Authentic(last'.req)
        /\ last'.req.event = "push"
        /\ RawBodies[last'.req.body].json
        /\ RawBodies[last'.req.body].ref = RefsHeads \o deployBranch
        /\ ~IsIdentifier(RawBodies[last'.req.body].name))
          => (IsIgnored(resp'[last'.by]) /\ NothingQueued)]_vars

\* a push to main, the deploy branch, naming "a/b" was ignored as invalid
C8_Witness ==
    /\ deployBranch = Main
    /\ last.req = [readErr |-> FALSE, body |-> 7, event |-> "push",
                   sig |-> Sign(webhookSecret, 7)]
    /\ resp[last.by] = Reply(200, "ignored: invalid repository")
    /\ gor[last.by] = "none"

\* C2: whenever a handler has answered {ok: true, queued: true}, the slot
\* write made for that request has already succeeded.
C2_QueuedAfterWrite ==
    \A h \in Handlers : resp[h] = Queued => gor[h] = "ok"

\* C3: a request whose slot write failed is answered with a server error and
\* never with {ok: true, queued: true}.
C3_WriteFailureIsServerError ==
    \A h \in Handlers :
        gor[h] = "failed" =>
            /\ resp[h] # Queued
            /\ hpc[h] = "idle" => resp[h].status >= 500

InCycle(w) == wpc[w] \in {"clearing", "syncing", "deploying", "releasing"}

\* C4: for every project at most one watcher is between claiming the lock
\* and releasing it, and that watcher is the holder of the project's lock.
C4_OneCycleAtATime ==
    /\ \A r \in Projects :
          Cardinality({w \in Watchers : InCycle(w) /\ wcur[w] = r}) <= 1
    /\ \A w \in Watchers : InCycle(w) => lock[wcur[w]] = w

\* one watcher runs the deploy of svc1 while the other is about to try its lock
C4_Witness ==
    /\ wpc["w1"] = "deploying" /\ wcur["w1"] = Svc1
    /\ wpc["w2"] = "claiming" /\ Svc1 \in wtodo["w2"]

\* C5: every trigger accepted for a project (it is answered "queued") is
\* eventually followed by a cycle of that project whose sync starts after the
\* trigger was accepted.
C5_NoPushDropped ==
    \A r \in Projects : owed[r] ~> ~owed[r]

\* nothing of project r is in flight: its accepted triggers are answered and
\* their writes are over, no slot of it is pending, no watcher has it in hand
Quiet(r) ==
    /\ \A h \in Handlers : hrepo[h] = r => (hpc[h] = "idle" /\ gor[h] # "ready")
    /\ r \notin Pending
    /\ \A w \in Watchers : r \notin wtodo[w] /\ wcur[w] # r

\* C6: with one watcher process polling, when the only triggers of a project
\* are those answered "queued" before the first poll, however many, they lead
\* to exactly one cycle: never to a second one, and to one once nothing of the
\* project is in flight.
C6_BurstOneCycle ==
    \A r \in Projects :
        (/\ early[r] >= 1
         /\ ~late[r]
         /\ \A h \in Handlers : hrepo[h] = r => hpc[h] = "idle"
         /\ Cardinality(polled) <= 1) =>
            /\ cycles[r] <= 1
            /\ Quiet(r) => cycles[r] = 1

\* C9: an authenticated request whose event type is not "push" is answered
\* 200 {ok: true, ignored: "not a push"}, starts no slot write and leaves the
\* watchers as they are; and a watcher only ever works on a project for which
\* a push was accepted.
C9_NonPushIgnored ==
    /\ [][(Handled /\ Authentic(last'.req) /\ last'.req.event # "push")
            => /\ resp'[last'.by] = Reply(200, "ignored: not a push")
               /\ NothingQueued
               /\ UNCHANGED <<lock, wpc, wtodo, wcur, cycles>>]_vars
    /\ [](\A w \in Watchers :
            \A r \in wtodo[w] \cup ({wcur[w]} \ {NoRepo}) :
                \E h \in Handlers : hrepo[h] = r \/ early[r] >= 1 \/ late[r])

\* a signed pull_request event was ignored; the watchers poll and find
\* nothing to do
C9_Witness ==
    /\ last.req = [readErr |-> FALSE, body |-> 2, event |-> "pull_request",
                   sig |-> Sign(webhookSecret, 2)]
    /\ resp[last.by] = Reply(200, "ignored: not a push")
    /\ polled # {}
    /\ Pending = {}
    /\ \A w \in Watchers : wpc[w] = "idle"
    /\ \A r \in Projects : cycles[r] = 0

\* C10: a runDeploy for an identity whose slot is already pending leaves the
\* directories as they are (one slot for the identity, every other slot
\* untouched) and succeeds as the first call did, the storage accepting writes.
C10_MarkPendingIdempotent ==
    [][\A h \in Handlers :
          (gor[h] = "ready" /\ gor'[h] # "ready" /\ hrepo[h] \in Pending)
             => (dirs' = dirs /\ (storageUp => gor'[h] = "ok"))]_vars

\* two triggers for svc1 were answered "queued" and both writes succeeded, with the
\* slot of b-2 pending beside the one slot of svc1
C10_Witness ==
    /\ early[Svc1] >= 2
    /\ \A h \in Handlers : hrepo[h] = Svc1 /\ gor[h] = "ok"
    /\ Pending = {Svc1, B2}

\* C11: with concurrent handlers and no watcher clearing, once no slot write
\* is in flight the pending set is exactly the set of the repository names of
\* the triggers accepted so far, one job folder per name and no other
\* directory made.
C11_QueuedIndependently ==
    (\A h \in Handlers : gor[h] # "ready") =>
        /\ Pending = {r \in Projects : owed[r]}
        /\ dirs = Ancestors(webhookDir)
                    \cup {Append(webhookDir, r) : r \in {q \in Projects : owed[q]}}

IsPrefix(s, t) == Len(s) <= Len(t) /\ SubSeq(t, 1, Len(s)) = s
EndsWith(s, x) == s # <<>> /\ s[Len(s)] = x

CycleShapes ==
    {<<Steps.lock, Steps.clear, Steps.synced, d, Steps.release>> :
        d \in {Steps.deployed, Steps.deployFailed}}
    \cup {<<Steps.lock, Steps.clear, Steps.syncFailed, Steps.release>>}

C14_LockAlwaysReleased ==
    /\ [][\A w \in Watchers :
              (did'[w] # did[w]
                  /\ \/ EndsWith(did[w], Steps.syncFailed)
                     \/ EndsWith(did[w], Steps.deployed)
                     \/ EndsWith(did[w], Steps.deployFailed)) =>
                  /\ did'[w] = Append(did[w], Steps.release)
                  /\ lock'[wcur[w]] = Free]_vars
    /\ \A r \in Projects : (lock[r] # Free) ~> (lock[r] = Free)
    /\ [][(watcherVars' # watcherVars) => dirs' \subseteq dirs]_vars

\* a cycle of svc1 ended on a failed sync, one of b-2 on a deploy that
\* returned 1; both locks are free and neither job folder is back
C14_Witness ==
    /\ did["w1"] = <<Steps.lock, Steps.clear, Steps.syncFailed, Steps.release>>
    /\ did["w2"] = <<Steps.lock, Steps.clear, Steps.synced, Steps.deployFailed,
                     Steps.release>>
    /\ \A r \in Projects : lock[r] = Free
    /\ Pending = {}
    /\ \A w \in Watchers : wpc[w] = "idle"

\* C15: a call of verifySignature returns no error exactly when the signature
\* is "sha256=" followed by the lower-case hex HMAC-SHA256 of the body under
\* the secret the server loaded; every other signature for that body, and
\* that signature for every other body, is refused.
C15_VerifyExact ==
    verr # NotRun =>
        /\ (verr = "") <=>
               (vin.signature
                   = Sha256Prefix \o EncodeToString(hmacSha256(webhookSecret, vin.body)))
        /\ \A b \in Bodies \ {vin.body} :
               verr = "" => vin.signature # Sign(webhookSecret, b)

\* the signature of body 2 was accepted for body 2
C15_Witness ==
    /\ vin = [body |-> 2, signature |-> Sign(webhookSecret, 2)]
    /\ verr = ""

\* C16 as stated: a correctly signed request whose body is not JSON is
\* answered 400 whatever its event type, and starts no slot write.
C16_BadJsonIs400 ==
    [][(Handled /\ Authentic(last'.req) /\ ~RawBodies[last'.req.body].json)
          => (resp'[last'.by].status = 400 /\ NothingQueued)]_vars

\* C16, amended: such a request is answered 400 "invalid JSON" when its event
\* type is "push" and 200 ignored "not a push" otherwise, the event type
\* being looked at before the body is parsed; in both cases it starts no slot
\* write.
C16_BadJsonRejected ==
    [][(Handled /\ Authentic(last'.req) /\ ~RawBodies[last'.req.body].json)
          => /\ resp'[last'.by] = IF last'.req.event = "push"
                                  THEN Reply(400, "invalid JSON")
                                  ELSE Reply(200, "ignored: not a push")
             /\ NothingQueued]_vars

\* a correctly signed push whose body is not JSON was answered 400
C16_Witness ==
    /\ last.req = [readErr |-> FALSE, body |-> 1, event |-> "push",
                   sig |-> Sign(webhookSecret, 1)]
    /\ resp[last.by] = Reply(400, "invalid JSON")
    /\ gor[last.by] = "none"
    /\ Pending = {}

\* C17: a step of the webhook server (a handler or the goroutine it started)
\* removes no directory, leaves every lock, every watcher and the steps of
\* their cycles as they are, and makes at most one directory: the job folder
\* named by the trigger the handler accepted.
C17_IngressOnlyAdds ==
    [][(ingressVars' # ingressVars) =>
          /\ dirs \subseteq dirs'
          /\ UNCHANGED <<lock, wpc, wtodo, wcur, skipped, did>>
          /\ dirs' # dirs =>
                /\ Authentic(last.req) /\ last.req.event = "push"
                /\ dirs' \ dirs = {Append(webhookDir, RawBodies[last.req.body].name)}]_vars

\* the server made the job folder of svc1 beside the one of b-2 while a
\* watcher held the lock of svc1 in its deploy
C17_Witness ==
    /\ last.req = [readErr |-> FALSE, body |-> 2, event |-> "push",
                   sig |-> Sign(webhookSecret, 2)]
    /\ gor["h1"] = "ok"
    /\ Pending = {Svc1, B2}
    /\ \E w \in Watchers : wpc[w] = "deploying" /\ wcur[w] = Svc1 /\ lock[Svc1] = w

\* the six checks in the order of the statement: whether the request fails
\* the check, and the status and the "ignored" reason it is then answered with
Checks(req) ==
    << [fails |-> req.readErr, status |-> 400, ignored |-> ""],
       [fails |-> BadSignature(req), status |-> 401, ignored |-> ""],
       [fails |-> req.event # "push", status |-> 200, ignored |-> "not a push"],
       [fails |-> ~RawBodies[req.body].json, status |-> 400, ignored |-> ""],
       [fails |-> RawBodies[req.body].ref # RefsHeads \o Main,
        status |-> 200, ignored |-> "not main"],
       [fails |-> ~IsIdentifier(RawBodies[req.body].name),
        status |-> 200, ignored |-> "invalid repository"] >>
Failing(req) == {i \in 1..6 : Checks(req)[i].fails}
FirstFailing(req) == CHOOSE i \in Failing(req) : \A j \in Failing(req) : i <= j

\* a step in which a handler took a request, be it the one it took before
Taken == Handled \/ \E h \in Handlers : hpc[h] = "idle" /\ hpc'[h] = "respond"

\* C18: a handler that takes a request failing one of the six checks answers
\* at once with the status (and "ignored" reason) of the first check that
\* fails, and starts no slot write; one that takes a request passing all six
\* starts the slot write and has its single answer, {ok: true, queued: true},
\* still to send; an answer is only ever sent by these two steps, and a slot
\* write only started by the second.
C18_FirstFailingCheck ==
    /\ [][Taken =>
            IF Failing(last'.req) # {}
            THEN LET c == Checks(last'.req)[FirstFailing(last'.req)] IN
                 /\ resp'[last'.by].status = c.status
                 /\ c.ignored # "" =>
                        resp'[last'.by].body = "ignored: " \o c.ignored
                 /\ c.ignored = "" => ~IsIgnored(resp'[last'.by])
                 /\ NothingQueued
            ELSE /\ resp'[last'.by] = NoReply
                 /\ hpc'[last'.by] = "respond"
                 /\ gor'[last'.by] = "ready"]_vars
    /\ [][\A h \in Handlers :
            (~Taken /\ resp'[h] # resp[h]) =>
                /\ hpc[h] = "respond" /\ hpc'[h] = "idle"
                /\ resp[h] = NoReply /\ resp'[h] = Queued
                /\ Failing(last.req) = {}]_vars
    /\ [][\A h \in Handlers :
            (gor'[h] = "ready" /\ gor[h] # "ready") =>
                (Taken /\ last'.by = h /\ Failing(last'.req) = {})]_vars

\* a signed push with neither ref nor repository name was answered by the
\* ref check, the first of the two that it fails
C18_Witness ==
    /\ last.req = [readErr |-> FALSE, body |-> 9, event |-> "push",
                   sig |-> Sign(webhookSecret, 9)]
    /\ Failing(last.req) = {5, 6}
    /\ resp[last.by] = Reply(200, "ignored: not main")
    /\ gor[last.by] = "none"

\* C19: every directory there is besides the mailbox root and its ancestors
\* is a direct child of the root whose name is an identifier; and every
\* directory that is made is such a child, named in the correctly signed
\* push to refs/heads/main that the handler accepted, nothing else being
\* made or removed with it.
C19_SlotsUnderRoot ==
    /\ [](\A d \in dirs \ Ancestors(webhookDir) :
              IsSlot(d) /\ IsIdentifier(SlotName(d)))
    /\ [][dirs' # dirs =>
            LET n == RawBodies[last.req.body].name IN
            /\ dirs' = dirs \cup {Append(webhookDir, n)}
            /\ IsIdentifier(n)
            /\ Authentic(last.req)
            /\ last.req.event = "push"
            /\ RawBodies[last.req.body].json
            /\ RawBodies[last.req.body].ref = RefsHeads \o Main]_vars

\* the job folders of svc1 and b-2 are all there is under the root after
\* a signed push to main naming ".." was handled
C19_Witness ==
    /\ last.req = [readErr |-> FALSE, body |-> 8, event |-> "push",
                   sig |-> Sign(webhookSecret, 8)]
    /\ resp[last.by] = Reply(200, "ignored: invalid repository")
    /\ dirs = Ancestors(webhookDir)
                \cup {Append(webhookDir, Svc1), Append(webhookDir, B2)}
====
